---- MODULE Spec2Model ----
(***************************************************************************)
(* A model of model_controller: the generic CRUD controller                *)
(* (model_controller/controller.py), its processor notification, its       *)
(* ambient context and the filter schema generator                         *)
(* (model_controller/filters.py).                                          *)
(*                                                                         *)
(* Text (column names, field names, text values) is a sequence of          *)
(* one-character strings, so that suffix tests, slicing, concatenation and *)
(* LIKE patterns are computed the way the code computes them.              *)
(***************************************************************************)
EXTENDS Integers, Sequences, FiniteSets, TLC

VARIABLES
    model,          \* self._model: the bound entity (a class name)
    pagination,     \* self.pagination_method is set
    processors,     \* self._processors: the ordered list of processors
    context,        \* self.context: the ambient mapping
    db,             \* the session: the set of flushed rows
    stack,          \* the set_context blocks the caller is inside, innermost last
    op,             \* the last call made and its arguments
    ret,            \* how that call ended: a returned value or a raised exception
    trace,          \* what that call did, in order: session calls and process() calls
    ctor,           \* the keyword arguments of the row constructor call it made
    callers         \* callers sharing the controller: where each is, who wrote context last

vars ==
    <<model, pagination, processors, context, db, stack, op, ret, trace, ctor, callers>>

----------------------------------------------------------------------------
(* Bounds of the model.                                                    *)

MaxProcessors == 2
MaxRows == 2
MaxNotifyRows == 1
MaxDepth == 2
MaxColumns == 2
MaxQueryId == 3

----------------------------------------------------------------------------
(* Text.                                                                   *)

\* str.endswith
endswith(s, suf) ==
    /\ Len(s) >= Len(suf)
    /\ SubSeq(s, Len(s) - Len(suf) + 1, Len(s)) = suf

\* s[:-n]
strip(s, n) == SubSeq(s, 1, Len(s) - n)

\* SQL LIKE as the session evaluates column.like(pattern): in the pattern "%"
\* matches any run of characters and "_" any one character (no escape is given).
RECURSIVE like(_, _)
like(s, pat) ==
    IF pat = <<>> THEN s = <<>>
    ELSE IF Head(pat) = "%"
         THEN like(s, Tail(pat)) \/ (s # <<>> /\ like(Tail(s), pat))
         ELSE /\ s # <<>>
              /\ (Head(pat) = "_" \/ Head(pat) = Head(s))
              /\ like(Tail(s), Tail(pat))

\* value occurs in s as a contiguous run of characters
contains(s, value) ==
    \E i \in 1..(Len(s) - Len(value) + 1) : SubSeq(s, i, i + Len(value) - 1) = value

suffix_lt == <<"_", "l", "t">>
suffix_gt == <<"_", "g", "t">>
suffix_like == <<"_", "l", "i", "k", "e">>
Filter_suffix == <<"F", "i", "l", "t", "e", "r">>

----------------------------------------------------------------------------
(* Values: None, an integer or a text.                                     *)

None == [t |-> "none"]
IntV(n) == [t |-> "int", v |-> n]
StrV(s) == [t |-> "str", v |-> s]

\* Python truthiness of a value: None, 0 and "" are falsy
truthy(x) ==
    /\ x # None
    /\ (x.t = "int" => x.v # 0)
    /\ (x.t = "str" => x.v # <<>>)

----------------------------------------------------------------------------
(* The entities: tests/models.py, and two more declared the same way, a    *)
(* subclass of a subclass and a subclass whose identity is the empty text. *)

n_id == <<"i", "d">>
n_name == <<"n", "a", "m", "e">>
n_type == <<"t", "y", "p", "e">>
n_extra_field_a == <<"e", "x", "t", "r", "a", "_", "f", "i", "e", "l", "d", "_", "a">>
n_extra_field_b == <<"e", "x", "t", "r", "a", "_", "f", "i", "e", "l", "d", "_", "b">>

id_SubModelA == <<"S", "u", "b", "M", "o", "d", "e", "l", "A">>
id_SubModelB == <<"S", "u", "b", "M", "o", "d", "e", "l", "B">>
id_SubSubModelA == <<"S", "u", "b", "S", "u", "b", "M", "o", "d", "e", "l", "A">>
id_Empty == <<>>
id_Unknown == <<"X">>

Classes ==
    {"ModelToTest", "PolymorphicModel", "SubModelA", "SubModelB",
     "SubSubModelA", "SubModelEmpty"}

\* the class each class is declared a subclass of ("Base": the declarative base)
parent(cls) ==
    CASE cls = "ModelToTest" -> "Base"
      [] cls = "PolymorphicModel" -> "Base"
      [] cls = "SubModelA" -> "PolymorphicModel"
      [] cls = "SubModelB" -> "PolymorphicModel"
      [] cls = "SubModelEmpty" -> "PolymorphicModel"
      [] cls = "SubSubModelA" -> "SubModelA"

\* cls.__subclasses__(): the direct subclasses, in declaration order
subclasses(cls) ==
    CASE cls = "PolymorphicModel" -> <<"SubModelA", "SubModelB", "SubModelEmpty">>
      [] cls = "SubModelA" -> <<"SubSubModelA">>
      [] OTHER -> <<>>

\* cls.__mapper_args__: a mapping, here a set of <<key, value>> pairs;
\* "absent" when the class and its bases declare none
mapper_args(cls) ==
    CASE cls = "PolymorphicModel" ->
            {<<"with_polymorphic", StrV(<<"*">>)>>, <<"polymorphic_on", StrV(n_type)>>}
      [] cls = "SubModelA" -> {<<"polymorphic_identity", StrV(id_SubModelA)>>}
      [] cls = "SubModelB" -> {<<"polymorphic_identity", StrV(id_SubModelB)>>}
      [] cls = "SubSubModelA" -> {<<"polymorphic_identity", StrV(id_SubSubModelA)>>}
      [] cls = "SubModelEmpty" -> {<<"polymorphic_identity", StrV(id_Empty)>>}
      [] OTHER -> {}

\* mapping.get(key, None)
dict_get(mapping, key) ==
    IF \E p \in mapping : p[1] = key
    THEN (CHOOSE p \in mapping : p[1] = key)[2]
    ELSE None

\* issubclass(cls, base)
RECURSIVE issubclass(_, _)
issubclass(cls, base) ==
    \/ cls = base
    \/ (cls # "Base" /\ issubclass(parent(cls), base))

\* the mapped attributes a class's constructor accepts
attributes(cls) ==
    CASE cls = "ModelToTest" -> {n_id, n_name}
      [] cls = "PolymorphicModel" -> {n_type, n_id, n_name}
      [] cls = "SubModelA" -> {n_type, n_id, n_name, n_extra_field_a}
      [] cls = "SubSubModelA" -> {n_type, n_id, n_name, n_extra_field_a}
      [] cls = "SubModelB" -> {n_type, n_id, n_name, n_extra_field_b}
      [] cls = "SubModelEmpty" -> {n_type, n_id, n_name}

\* the mapped attributes declared NOT NULL (Mapped[str], not Optional) that
\* neither the database nor the mapper fills in
not_null(cls) == {n_name}

----------------------------------------------------------------------------
(* Payloads: validated schema objects (tests/schemas.py).  A payload is    *)
(* its schema and the fields that were explicitly set, with their values.  *)

Unset == [t |-> "unset"]

Schemas == {"BaseModelCreateSchema", "SubModelACreateSchema", "OptionalSchema"}

\* the fields a schema declares
schema_fields(schema) ==
    CASE schema = "BaseModelCreateSchema" -> {n_name}
      [] schema = "SubModelACreateSchema" -> {n_type, n_name, n_extra_field_a}
      [] schema = "OptionalSchema" -> {n_id, n_type, n_name, n_extra_field_a}

\* the default of a field that has one; a field without one is required
schema_default(schema, f) ==
    CASE schema = "SubModelACreateSchema" /\ f = n_type -> StrV(id_SubModelA)
      [] schema = "OptionalSchema" -> None
      [] OTHER -> Unset

\* getattr(data, name, None): the set value, else the field's default, else None
getattr_or_none(data, name) ==
    IF name \in DOMAIN data.set THEN data.set[name]
    ELSE IF name \in schema_fields(data.schema) /\ schema_default(data.schema, name) # Unset
         THEN schema_default(data.schema, name)
         ELSE None

\* model_dump, were exclude_none ignored
model_dump_keep_none(data, exclude_none) == data.set

\* data.model_dump(exclude_unset=True, exclude_none=exclude_none)
model_dump(data, exclude_none) ==
    LET keep == {f \in DOMAIN data.set : ~exclude_none \/ data.set[f] # None}
    IN  [f \in keep |-> data.set[f]]

\* the payload a schema validates from an assignment of a value or Unset to
\* each of its fields
payload(schema, assign) ==
    [schema |-> schema,
     set |-> [f \in {g \in DOMAIN assign : assign[g] # Unset} |-> assign[f]]]

----------------------------------------------------------------------------
(* Rows.  A row is its class and the value of each mapped attribute.       *)

\* model_class(**kwargs): the attributes given, None for the others
new_row(cls, kwargs) ==
    [cls |-> cls,
     cols |-> [a \in attributes(cls) |-> IF a \in DOMAIN kwargs THEN kwargs[a] ELSE None]]

\* what the mapper and the database fill in at flush: the generated identity
\* when none was given, and the class's polymorphic identity as discriminator
flushed(row, newid) ==
    LET ident == dict_get(mapper_args(row.cls), "polymorphic_identity")
    IN  [row EXCEPT
            !.cols = [a \in DOMAIN row.cols |->
                        IF a = n_id /\ row.cols[a] = None THEN IntV(newid)
                        ELSE IF a = n_type /\ ident # None THEN ident
                        ELSE row.cols[a]]]

ids(rows) == {r.cols[n_id].v : r \in rows}

MaxId == MaxRows + 1

\* type(db_obj)
type(row) == row.cls

----------------------------------------------------------------------------
(* Exceptions and results.                                                 *)

Return(v) == [value |-> v, kind |-> "return"]
Raise(e) == [value |-> e, kind |-> "raise"]

True == [t |-> "bool", v |-> TRUE]

ControllerException(name) ==
    [exc |-> "ControllerException",
     msg |-> <<"Cannot resolve the actual model for ", name>>]
TypeError == [exc |-> "TypeError"]
SessionError == [exc |-> "SessionError"]
ProcessorError(i) == [exc |-> "ProcessorError", by |-> i]
BodyError == [exc |-> "BodyError"]

NoCtor == [called |-> FALSE]
Ctor(cls, kwargs) == [cls |-> cls, kwargs |-> kwargs, called |-> TRUE]

----------------------------------------------------------------------------
(* The controller.                                                         *)

Empty == {}

\* ModelController._get_polymorph_on
get_polymorph_on(cls) ==
    LET args == mapper_args(cls)
    IN  IF args # {} THEN dict_get(args, "polymorphic_on") ELSE None

\* self._polymorph_on, set by __init__
polymorph_on == get_polymorph_on(model)

\* the loop of _get_actual_model over self._model.__subclasses__(), from the
\* i-th subclass on: the first whose polymorphic_identity equals the value
RECURSIVE first_subclass(_, _, _)
first_subclass(subs, i, identity) ==
    IF i > Len(subs) THEN None
    ELSE IF dict_get(mapper_args(subs[i]), "polymorphic_identity") = identity
         THEN StrV(subs[i])
         ELSE first_subclass(subs, i + 1, identity)

\* get_actual_model, were the bound entity used when no subclass matches
get_actual_model_fallback(data) ==
    IF ~truthy(polymorph_on) THEN Return(model)
    ELSE LET data_has_identity == getattr_or_none(data, polymorph_on.v)
             found == IF truthy(data_has_identity)
                      THEN first_subclass(subclasses(model), 1, data_has_identity)
                      ELSE None
         IN  IF found # None THEN Return(found.v) ELSE Return(model)

\* ModelController._get_actual_model
get_actual_model(data) ==
    IF ~truthy(polymorph_on) THEN Return(model)
    ELSE LET data_has_identity == getattr_or_none(data, polymorph_on.v)
             found == IF truthy(data_has_identity)
                      THEN first_subclass(subclasses(model), 1, data_has_identity)
                      ELSE None
         IN  IF found # None THEN Return(found.v)
             ELSE Raise(ControllerException(model))

\* Call, were the bound entity passed instead of the operation's class
Call_bound_model(i, operation, mdl, data, outcome) ==
    [model |-> model, context |-> context, data |-> data, operation |-> operation,
     outcome |-> outcome, ev |-> "process", index |-> i, processor |-> processors[i]]

\* one process() call as the processor sees it
Call(i, operation, mdl, data, outcome) ==
    [model |-> mdl, context |-> context, data |-> data, operation |-> operation,
     outcome |-> outcome, ev |-> "process", index |-> i, processor |-> processors[i]]

\* notify_from, were a processor's exception caught and the loop continued
RECURSIVE notify_from_swallow(_, _, _, _, _)
notify_from_swallow(i, operation, mdl, data, failAt) ==
    IF i > Len(processors) THEN [calls |-> <<>>, result |-> Return(None)]
    ELSE LET rest == notify_from_swallow(i + 1, operation, mdl, data, failAt)
             outcome == IF i = failAt THEN "raised" ELSE "returned"
         IN  [calls |-> <<Call(i, operation, mdl, data, outcome)>> \o rest.calls,
              result |-> rest.result]

\* ModelController._notify_processors, from the i-th processor on; the
\* failAt-th processor raises (0: none does)
RECURSIVE notify_from(_, _, _, _, _)
notify_from(i, operation, mdl, data, failAt) ==
    IF i > Len(processors) THEN [calls |-> <<>>, result |-> Return(None)]
    ELSE IF i = failAt
         THEN [calls |-> <<Call(i, operation, mdl, data, "raised")>>,
               result |-> Raise(ProcessorError(i))]
         ELSE LET rest == notify_from(i + 1, operation, mdl, data, failAt)
              IN  [calls |-> <<Call(i, operation, mdl, data, "returned")>> \o rest.calls,
                   result |-> rest.result]

\* notify_processors, were each distinct processor notified once only
notify_processors_dedup(operation, mdl, data, failAt) ==
    LET n == notify_from(1, operation, mdl, data, failAt)
    IN  [calls |-> SelectSeq(n.calls,
                             LAMBDA c : \A j \in 1..(c.index - 1) :
                                           processors[j] # c.processor),
         result |-> n.result]

notify_processors(operation, mdl, data, failAt) ==
    notify_from(1, operation, mdl, data, failAt)

----------------------------------------------------------------------------
(* Queries.  A predicate is a column, a comparison and a value; the        *)
(* session evaluates it on a row as SQL does: a NULL column satisfies no   *)
(* comparison with a value.                                                *)

Pred(col, cmp, value) == [value |-> value, col |-> col, cmp |-> cmp]

holds(row, p) ==
    LET x == row.cols[p.col]
    IN  CASE p.cmp = "eq" -> x = p.value
          [] p.cmp = "lt" -> x # None /\ x.v < p.value.v
          [] p.cmp = "gt" -> x # None /\ x.v > p.value.v
          [] p.cmp = "le" -> x # None /\ x.v <= p.value.v
          [] p.cmp = "like" -> x # None /\ like(x.v, <<"%">> \o p.value.v \o <<"%">>)

\* db.query(self._model).filter(*args).filter_by(**kwargs)
query(rows, args, kwargs) ==
    {r \in rows :
        /\ issubclass(r.cls, model)
        /\ \A p \in args : holds(r, p)
        /\ \A k \in DOMAIN kwargs : holds(r, Pred(k, "eq", kwargs[k]))}

\* the predicate get_many builds from one field of the filter object
filter_predicate(field, value) ==
    IF endswith(field, suffix_lt) THEN Pred(strip(field, 3), "lt", value)
    ELSE IF endswith(field, suffix_gt) THEN Pred(strip(field, 3), "gt", value)
    ELSE IF endswith(field, suffix_like) THEN Pred(strip(field, 5), "like", value)
    ELSE Pred(field, "eq", value)

\* the predicates of get_many's loop over filters.model_dump(...)
filter_predicates(filters) ==
    IF filters = None THEN {}
    ELSE LET filters_dict == model_dump(filters, TRUE)
         IN  {filter_predicate(f, filters_dict[f]) : f \in DOMAIN filters_dict}

Rows(rs) == [t |-> "rows", v |-> rs]
Page(rs) == [t |-> "page", v |-> rs]
AttributeError == [exc |-> "AttributeError"]

----------------------------------------------------------------------------
(* The operations.  Each takes its arguments and what its collaborators    *)
(* decide: the identity the database generates, whether the flush          *)
(* succeeds, and which processor (0: none) raises.  trace is what the      *)
(* operation did, in order: its session calls and its process() calls.     *)

Add == [ev |-> "add"]
Del == [ev |-> "delete"]
Flush(ok) == [ev |-> "flush", ok |-> ok]

\* db.add(db_obj); db.flush() of a row that is already stored or new
session_add(rows, old, new) == (rows \ old) \cup {new}

\* session_delete, were the row never deleted
session_delete_noop(rows, db_obj) == rows

\* db.delete(db_obj); db.flush()
session_delete(rows, db_obj) == rows \ {db_obj}

\* the flush is refused when a NOT NULL column holds no value
storable(row) == \A a \in not_null(row.cls) : row.cols[a] # None

\* mutation_steps, were the processors notified before the session call
mutation_steps_notify_first(change, n) == n.calls \o <<change, Flush(TRUE)>>

\* what a mutating operation does once its flush succeeds, in order: the
\* session call, the flush, the process() calls
mutation_steps(change, n) == <<change, Flush(TRUE)>> \o n.calls

Finish(r, t, k, d) ==
    /\ ret' = r
    /\ trace' = t
    /\ ctor' = k
    /\ db' = d

\* how an operation ends after its flush: with the exception of the processor
\* that raised, else returning value
Outcome(n, value) == IF n.result.kind = "raise" THEN n.result ELSE Return(value)

\* ModelController.register_processor
RegisterProcessor(p) ==
    /\ Len(processors) < MaxProcessors
    /\ processors' = Append(processors, p)
    /\ op' = [kind |-> "register_processor", processor |-> p]
    /\ Finish(Return(None), <<>>, NoCtor, db)
    /\ UNCHANGED <<model, pagination, context, stack, callers>>

\* ModelController.create
Create(obj_create, newid, flushOk, failAt) ==
    LET resolved == get_actual_model(obj_create)
    IN  /\ op' = [data |-> obj_create, kind |-> "create"]
        /\ UNCHANGED <<model, pagination, processors, context, stack, callers>>
        /\ IF resolved.kind = "raise" THEN Finish(resolved, <<>>, NoCtor, db)
           ELSE LET model_class == resolved.value
                    obj_create_data == model_dump(obj_create, TRUE)
                    made == Ctor(model_class, obj_create_data)
                IN  IF ~(DOMAIN obj_create_data \subseteq attributes(model_class))
                    THEN Finish(Raise(TypeError), <<>>, made, db)
                    ELSE LET db_obj == flushed(new_row(model_class, obj_create_data), newid)
                             n == notify_processors("CREATE", model_class, obj_create, failAt)
                         IN  IF ~flushOk \/ ~storable(db_obj)
                             THEN Finish(Raise(SessionError), <<Add, Flush(FALSE)>>, made, db)
                             ELSE /\ newid \notin ids(db)
                                  /\ Finish(Outcome(n, db_obj),
                                            mutation_steps(Add, n),
                                            made, session_add(db, {}, db_obj))

\* setattrs, were a dumped None skipped as create skips it
setattrs_skip_none(db_obj, data) ==
    [db_obj EXCEPT !.cols = [a \in DOMAIN db_obj.cols |->
                                IF a \in DOMAIN data /\ data[a] # None THEN data[a]
                                ELSE db_obj.cols[a]]]

\* the row after update_object's setattr loop: the mapped attributes among the
\* dumped fields take the dumped values
setattrs(db_obj, data) ==
    [db_obj EXCEPT !.cols = [a \in DOMAIN db_obj.cols |->
                                IF a \in DOMAIN data THEN data[a] ELSE db_obj.cols[a]]]

\* the flush of a stored row old changed into new is refused when a NOT NULL
\* column holds no value, when the primary key holds none, or when another
\* stored row has the primary key
updatable(rows, old, new) ==
    /\ storable(new)
    /\ new.cols[n_id] # None
    /\ new.cols[n_id].v \notin ids(rows \ {old})

\* ModelController.update_object
UpdateObject(db_obj, obj_update, flushOk, failAt) ==
    LET obj_update_data == model_dump(obj_update, FALSE)
        updated == setattrs(db_obj, obj_update_data)
        n == notify_processors("UPDATE", type(db_obj), obj_update, failAt)
    IN  /\ db_obj \in db
        /\ op' = [data |-> obj_update, row |-> db_obj, kind |-> "update_object"]
        /\ UNCHANGED <<model, pagination, processors, context, stack, callers>>
        /\ IF ~flushOk \/ ~updatable(db, db_obj, updated)
           THEN Finish(Raise(SessionError), <<Add, Flush(FALSE)>>, NoCtor, db)
           ELSE Finish(Outcome(n, updated), mutation_steps(Add, n), NoCtor,
                       session_add(db, {db_obj}, updated))

\* ModelController.delete
Delete(db_obj, flushOk, failAt) ==
    LET n == notify_processors("DELETE", type(db_obj), db_obj, failAt)
    IN  /\ db_obj \in db
        /\ op' = [row |-> db_obj, kind |-> "delete"]
        /\ UNCHANGED <<model, pagination, processors, context, stack, callers>>
        /\ IF ~flushOk
           THEN Finish(Raise(SessionError), <<Del, Flush(FALSE)>>, NoCtor, db)
           ELSE Finish(Outcome(n, True), mutation_steps(Del, n), NoCtor,
                       session_delete(db, db_obj))

\* ModelController.get_one: the first row of the query, or None; the query
\* states no order, so any matching row may be the first
get_one(rows, args, kwargs) ==
    LET found == query(rows, args, kwargs)
    IN  IF found = {} THEN {None} ELSE found

GetOne(args, kwargs) ==
    /\ op' = [kwargs |-> kwargs, kind |-> "get_one", args |-> args]
    /\ \E r \in get_one(db, args, kwargs) : Finish(Return(r), <<>>, NoCtor, db)
    /\ UNCHANGED <<model, pagination, processors, context, stack, callers>>

\* self.pagination_method(db, query) and query.all(): what executes the query
Paginate == [ev |-> "pagination_method"]
All == [ev |-> "all"]

\* read_steps, were the query executed before the processors are notified
read_steps_query_first(n) == <<All>> \o n.calls

\* what get_many does without pagination once the query is built: notify,
\* then, unless a processor raised, execute the query
read_steps(n) ==
    IF n.result.kind = "raise" THEN n.calls ELSE n.calls \o <<All>>

\* ModelController.get_many
GetMany(filters, args, kwargs, failAt) ==
    LET preds == filter_predicates(filters)
        n == notify_processors("READ", model, filters, failAt)
    IN  /\ op' = [kwargs |-> kwargs, kind |-> "get_many", args |-> args, filters |-> filters]
        /\ UNCHANGED <<model, pagination, processors, context, stack, callers>>
        /\ IF \E p \in preds : p.col \notin attributes(model)
           THEN Finish(Raise(AttributeError), <<>>, NoCtor, db)
           ELSE LET found == query(db, args \cup preds, kwargs)
                IN  IF pagination THEN Finish(Return(Page(found)), <<Paginate>>, NoCtor, db)
                    ELSE Finish(Outcome(n, Rows(found)), read_steps(n), NoCtor, db)

\* context_after_exit, were the reset not in a finally clause
context_after_exit_no_finally(how) == IF how = "normal" THEN Empty ELSE context

\* the ambient context once a set_context block is left: the finally clause
context_after_exit(how) == Empty

\* context_on_enter, were a context already installed kept
context_on_enter_keep(mapping) == IF context = Empty THEN mapping ELSE context

\* the ambient context once a set_context block is entered
context_on_enter(mapping) == mapping

\* ModelController.set_context, entering the block: self.context = context
EnterContext(mapping) ==
    /\ Len(stack) < MaxDepth
    /\ context' = context_on_enter(mapping)
    /\ stack' = Append(stack, mapping)
    /\ op' = [mapping |-> mapping, kind |-> "enter_context"]
    /\ Finish(Return(None), <<>>, NoCtor, db)
    /\ UNCHANGED <<model, pagination, processors, callers>>

\* ModelController.set_context, leaving the block: how is "normal" when the
\* body completes, "body_raise" when the body raises, "op_raise" when the
\* exception of the controller call just made leaves it
ExitContext(how) ==
    /\ stack # <<>>
    /\ how = "op_raise" =>
          /\ ret.kind = "raise"
          /\ op.kind \in {"create", "update_object", "delete", "get_many"}
    /\ context' = context_after_exit(how)
    /\ stack' = SubSeq(stack, 1, Len(stack) - 1)
    /\ op' = [mapping |-> stack[Len(stack)], kind |-> "exit_context", how |-> how]
    /\ ret' = IF how = "normal" THEN Return(None)
              ELSE IF how = "body_raise" THEN Raise(BodyError)
              ELSE ret
    /\ trace' = <<>>
    /\ ctor' = NoCtor
    /\ UNCHANGED <<model, pagination, processors, db, callers>>

\* Callers that share the controller instance, each running
\*     with controller.set_context(m): controller.create(...) ...
\* in its own thread.  A caller is outside or inside its block; last is the
\* caller that assigned self.context last and whether on entering or leaving.
Callers == {"A", "B"}

Idle ==
    [pos |-> [t \in Callers |-> "outside"], last |-> [by |-> "none", event |-> "none"]]

\* caller t enters its set_context block: self.context = context
EnterBlock(t, mapping) ==
    /\ callers.pos[t] = "outside"
    /\ context' = context_on_enter(mapping)
    /\ stack' = Append(stack, mapping)
    /\ callers' = [pos |-> [callers.pos EXCEPT ![t] = "inside"],
                   last |-> [by |-> t, event |-> "enter"]]
    /\ op' = [mapping |-> mapping, kind |-> "enter_context"]
    /\ Finish(Return(None), <<>>, NoCtor, db)
    /\ UNCHANGED <<model, pagination, processors>>

\* caller t leaves its set_context block: finally: self.context = {}
ExitBlock(t, mapping) ==
    /\ callers.pos[t] = "inside"
    /\ context' = context_after_exit("normal")
    /\ stack' = SelectSeq(stack, LAMBDA m : m # mapping)
    /\ callers' = [pos |-> [callers.pos EXCEPT ![t] = "outside"],
                   last |-> [by |-> t, event |-> "exit"]]
    /\ op' = [mapping |-> mapping, kind |-> "exit_context", how |-> "normal"]
    /\ Finish(Return(None), <<>>, NoCtor, db)
    /\ UNCHANGED <<model, pagination, processors>>

\* the process() calls of the last operation, in order
calls == SelectSeq(trace, LAMBDA e : e.ev = "process")

----------------------------------------------------------------------------
(* The filter schema generator: model_controller/filters.py.  An entity is *)
(* its name and its table's columns, each a name and a column type.        *)

n_age == <<"a", "g", "e">>
n_Hero == <<"H", "e", "r", "o">>

Column(name, typ) == [name |-> name, type |-> typ]
Entity(name, columns) == [name |-> name, columns |-> columns]

\* isinstance(column.type, Integer): Integer and its subclasses
is_integer(typ) == typ \in {"Integer", "BigInteger", "SmallInteger"}

\* isinstance(column.type, tuple(string_classes)): String, its subclasses,
\* and sqlmodel's AutoString
is_string(typ) == typ \in {"String", "Text", "AutoString"}

\* (int | None, Field(None, description=...)) and the like
FieldSpec(typ, description) ==
    [type |-> typ, description |-> description, default |-> None]

\* integer_fields, were the greater-than field forgotten
integer_fields_no_gt(name) ==
    (name :> FieldSpec("int", <<"Filter by ", name>>))
    @@ (name \o suffix_lt :> FieldSpec("int", <<"Less than ", name>>))

\* the fields added for an integer column
integer_fields(name) ==
    (name :> FieldSpec("int", <<"Filter by ", name>>))
    @@ (name \o suffix_lt :> FieldSpec("int", <<"Less than ", name>>))
    @@ (name \o suffix_gt :> FieldSpec("int", <<"Greater than ", name>>))

\* the fields added for a text column
string_fields(name) ==
    (name :> FieldSpec("str", <<"Filter by ", name>>))
    @@ (name \o suffix_like :> FieldSpec("str", <<"Partial match for ", name>>))

\* model_fields after the loop over the first i columns; a later assignment
\* to a key replaces an earlier one
RECURSIVE model_fields(_, _)
model_fields(columns, i) ==
    IF i = 0 THEN <<>>
    ELSE LET before == model_fields(columns, i - 1)
             column == columns[i]
         IN  IF is_integer(column.type) THEN integer_fields(column.name) @@ before
             ELSE IF is_string(column.type) THEN string_fields(column.name) @@ before
             ELSE before

\* create_filter_model
create_filter_model(entity) ==
    [base |-> "FiltersBase",
     name |-> entity.name \o Filter_suffix,
     fields |-> model_fields(entity.columns, Len(entity.columns))]

CreateFilterModel(entity) ==
    /\ op' = [model |-> entity, kind |-> "create_filter_model"]
    /\ Finish(Return(create_filter_model(entity)), <<>>, NoCtor, db)
    /\ UNCHANGED <<model, pagination, processors, context, stack, callers>>

\* get_many's loop over the filter object, for a controller bound to entity:
\* the predicates it adds to the query, or the AttributeError of getattr when
\* the entity has no attribute of the name the suffix rule computes
Predicates(ps) == [t |-> "predicates", v |-> ps]

GetManyFilters(entity, filters) ==
    LET preds == filter_predicates(filters)
        columns == {entity.columns[i].name : i \in DOMAIN entity.columns}
    IN  /\ op' = [model |-> entity, kind |-> "get_many_filters", filters |-> filters]
        /\ IF \E p \in preds : p.col \notin columns
           THEN Finish(Raise(AttributeError), <<>>, NoCtor, db)
           ELSE Finish(Return(Predicates(preds)), <<>>, NoCtor, db)
        /\ UNCHANGED <<model, pagination, processors, context, stack, callers>>

----------------------------------------------------------------------------
(* The controller in use: processors, context blocks and every operation,  *)
(* on a few payloads.                                                      *)

Procs == {"p1", "p2"}

CtxA == {<<"user_id", 12>>}
CtxB == {<<"user_id", 7>>}
Contexts == {CtxA, CtxB}

v_a == StrV(<<"a">>)
v_b == StrV(<<"b">>)
v_x == StrV(<<"x">>)

BaseCreate(name) == payload("BaseModelCreateSchema", (n_name :> name))
SubACreate(typ, name, extra) ==
    payload("SubModelACreateSchema",
            (n_type :> typ) @@ (n_name :> name) @@ (n_extra_field_a :> extra))
Optional(id, typ, name, extra) ==
    payload("OptionalSchema",
            (n_id :> id) @@ (n_type :> typ) @@ (n_name :> name)
            @@ (n_extra_field_a :> extra))

NoKwargs == <<>>
ById(i) == {Pred(n_id, "eq", IntV(i))}

CreatePayloads == {BaseCreate(v_a), SubACreate(StrV(id_SubModelA), v_a, v_x)}
UpdatePayloads == {BaseCreate(v_b)}
IdFilter(f, v) == payload("ModelToTestFilter", (f :> v))
Filters == {None, IdFilter(n_id \o suffix_lt, IntV(2))}

----------------------------------------------------------------------------
(* Spec: processors are registered and the operations run, outside any     *)
(* set_context block or inside one that installed CtxA.                    *)

Init ==
    /\ model \in {"ModelToTest", "PolymorphicModel"}
    /\ pagination \in BOOLEAN
    /\ processors = <<>>
    /\ \E s \in {<<>>, <<CtxA>>} :
          /\ stack = s
          /\ context = IF s = <<>> THEN Empty ELSE CtxA
    /\ db = {}
    /\ op = [kind |-> "init"]
    /\ ret = Return(None)
    /\ trace = <<>>
    /\ ctor = NoCtor
    /\ callers = Idle

Next ==
    \/ \E p \in Procs : RegisterProcessor(p)
    \/ \E d \in CreatePayloads, newid \in 1..(MaxNotifyRows + 1), flushOk \in BOOLEAN,
          failAt \in 0..Len(processors) :
          /\ Cardinality(db) < MaxNotifyRows
          /\ Create(d, newid, flushOk, failAt)
    \/ \E r \in db, d \in UpdatePayloads, flushOk \in BOOLEAN,
          failAt \in 0..Len(processors) : UpdateObject(r, d, flushOk, failAt)
    \/ \E r \in db, flushOk \in BOOLEAN, failAt \in 0..Len(processors) :
          Delete(r, flushOk, failAt)
    \/ \E i \in 1..(MaxNotifyRows + 1) : GetOne(ById(i), NoKwargs)
    \/ \E f \in Filters, failAt \in 0..Len(processors) : GetMany(f, {}, NoKwargs, failAt)

Spec == Init /\ [][Next]_vars

----------------------------------------------------------------------------
(* SpecContext: set_context blocks are entered and left, nested or not,    *)
(* around creates and deletes that may fail, with one processor registered.*)

InitContext ==
    /\ model = "ModelToTest"
    /\ pagination = FALSE
    /\ processors = <<"p1">>
    /\ context = Empty
    /\ stack = <<>>
    /\ db = {}
    /\ op = [kind |-> "init"]
    /\ ret = Return(None)
    /\ trace = <<>>
    /\ ctor = NoCtor
    /\ callers = Idle

NextContext ==
    \/ \E m \in Contexts : EnterContext(m)
    \/ \E how \in {"normal", "body_raise", "op_raise"} : ExitContext(how)
    \/ \E newid \in 1..(MaxNotifyRows + 1), flushOk \in BOOLEAN,
          failAt \in 0..Len(processors) :
          /\ Cardinality(db) < MaxNotifyRows
          /\ Create(BaseCreate(v_a), newid, flushOk, failAt)
    \/ \E r \in db, flushOk \in BOOLEAN, failAt \in 0..Len(processors) :
          Delete(r, flushOk, failAt)

SpecContext == InitContext /\ [][NextContext]_vars

----------------------------------------------------------------------------
(* SpecCrud: rows are created from many payloads, updated, deleted and     *)
(* looked up by identity, with one processor registered that never raises. *)

Identities ==
    {Unset, None, StrV(id_SubModelA), StrV(id_SubModelB), StrV(id_SubSubModelA),
     StrV(id_Empty), StrV(id_Unknown)}

CrudPayloads ==
    {BaseCreate(v_a)}
    \cup {SubACreate(t, v_a, v_x) : t \in {Unset, StrV(id_SubModelA)}}
    \cup {Optional(Unset, t, v_a, Unset) : t \in Identities}
    \cup {Optional(None, Unset, v_a, Unset),
          Optional(None, StrV(id_SubModelA), v_a, None),
          Optional(Unset, Unset, None, Unset)}

InitCrud ==
    /\ model \in {"ModelToTest", "PolymorphicModel"}
    /\ pagination = FALSE
    /\ processors = <<"p1">>
    /\ context = Empty
    /\ stack = <<>>
    /\ db = {}
    /\ op = [kind |-> "init"]
    /\ ret = Return(None)
    /\ trace = <<>>
    /\ ctor = NoCtor
    /\ callers = Idle

NextCrud ==
    \/ \E d \in CrudPayloads, newid \in 1..MaxId, flushOk \in BOOLEAN :
          /\ Cardinality(db) < MaxRows
          /\ Create(d, newid, flushOk, 0)
    \/ \E r \in db, d \in UpdatePayloads, flushOk \in BOOLEAN :
          UpdateObject(r, d, flushOk, 0)
    \/ \E r \in db, flushOk \in BOOLEAN : Delete(r, flushOk, 0)
    \/ \E i \in 1..MaxId : GetOne(ById(i), NoKwargs)
    \/ \E i \in 1..MaxId : GetOne({}, (n_id :> IntV(i)))

SpecCrud == InitCrud /\ [][NextCrud]_vars

----------------------------------------------------------------------------
(* SpecFilter: create_filter_model is applied to the Hero entity of the    *)
(* tests and to every table of up to MaxColumns columns.                   *)

n_a_lt == <<"a">> \o suffix_lt

ColumnNames == {n_id, n_name, n_age, n_a_lt}
ColumnTypes == {"Integer", "String", "Text", "Boolean"}

Hero ==
    Entity(n_Hero, <<Column(n_id, "Integer"), Column(n_name, "String"),
                     Column(n_age, "Integer")>>)

\* the column lists of up to MaxColumns columns, no name twice
ColumnLists ==
    {cs \in UNION {[1..n -> [name : ColumnNames, type : ColumnTypes]] : n \in 0..MaxColumns} :
        \A i, j \in DOMAIN cs : i # j => cs[i].name # cs[j].name}

Entities == {Hero} \cup {Entity(n_Hero, cs) : cs \in ColumnLists}

InitFilter ==
    /\ model = "ModelToTest"
    /\ pagination = FALSE
    /\ processors = <<>>
    /\ context = Empty
    /\ stack = <<>>
    /\ db = {}
    /\ op = [kind |-> "init"]
    /\ ret = Return(None)
    /\ trace = <<>>
    /\ ctor = NoCtor
    /\ callers = Idle

NextFilter == \E e \in Entities : CreateFilterModel(e)

SpecFilter == InitFilter /\ [][NextFilter]_vars

----------------------------------------------------------------------------
(* SpecFilterQuery: a filter schema is generated for an entity, then a     *)
(* filter object of that schema with one field set goes through get_many's *)
(* filter loop on a controller bound to the entity.                        *)

\* a value of the field's type
sample(field) == IF field.type = "int" THEN IntV(1) ELSE v_a

InitFilterQuery ==
    /\ model = "ModelToTest"
    /\ pagination = FALSE
    /\ processors = <<>>
    /\ context = Empty
    /\ stack = <<>>
    /\ db = {}
    /\ op = [kind |-> "init"]
    /\ ret = Return(None)
    /\ trace = <<>>
    /\ ctor = NoCtor
    /\ callers = Idle

NextFilterQuery ==
    \/ \E e \in Entities :
          /\ op.kind = "init"
          /\ CreateFilterModel(e)
    \/ \E f \in (IF op.kind = "create_filter_model" THEN DOMAIN ret.value.fields ELSE {}) :
          GetManyFilters(op.model, payload(ret.value.name, (f :> sample(ret.value.fields[f]))))

SpecFilterQuery == InitFilterQuery /\ [][NextFilterQuery]_vars

----------------------------------------------------------------------------
(* SpecQuery: get_many on ModelToTest rows with filter objects of the      *)
(* schema create_filter_model generates for it.                            *)

v_ab == StrV(<<"a", "b">>)
v_underscore == StrV(<<"_">>)

ModelToTestRow(i, name) ==
    [cls |-> "ModelToTest", cols |-> (n_id :> IntV(i)) @@ (n_name :> name)]

QueryNames == {v_a, v_ab}

\* the tables of rows with identities in 1..MaxQueryId
QueryDbs ==
    UNION {{{ModelToTestRow(i, f[i]) : i \in S} : f \in [S -> QueryNames]} :
              S \in SUBSET (1..MaxQueryId)}

ModelToTestFilter(id, id_lt, id_gt, name, name_like) ==
    payload("ModelToTestFilter",
            (n_id :> id) @@ (n_id \o suffix_lt :> id_lt) @@ (n_id \o suffix_gt :> id_gt)
            @@ (n_name :> name) @@ (n_name \o suffix_like :> name_like))

QueryFilters ==
    {None} \cup
    {ModelToTestFilter(a, b, c, d, e) :
        a \in {Unset, None, IntV(1)}, b \in {Unset, IntV(3)}, c \in {Unset, IntV(1)},
        d \in {Unset, v_a}, e \in {Unset, v_a, v_underscore}}

QueryArgs == {<<{}, NoKwargs>>, <<{Pred(n_id, "le", IntV(2))}, (n_name :> v_a)>>}

InitQuery ==
    /\ model = "ModelToTest"
    /\ pagination = FALSE
    /\ processors = <<"p1">>
    /\ context = Empty
    /\ stack = <<>>
    /\ db \in QueryDbs
    /\ op = [kind |-> "init"]
    /\ ret = Return(None)
    /\ trace = <<>>
    /\ ctor = NoCtor
    /\ callers = Idle

NextQuery ==
    \E f \in QueryFilters, a \in QueryArgs : GetMany(f, a[1], a[2], 0)

SpecQuery == InitQuery /\ [][NextQuery]_vars

----------------------------------------------------------------------------
(* SpecUpdate: rows are created and then updated with payloads that set,   *)
(* null or leave out the identity, the name and the optional extra field.  *)

UpdateCreatePayloads ==
    {BaseCreate(v_a), SubACreate(StrV(id_SubModelA), v_a, v_x)}

UpdateFieldPayloads ==
    {Optional(i, Unset, nm, ex) :
        i \in {Unset, IntV(2)}, nm \in {Unset, v_b}, ex \in {Unset, None}}
    \cup {Optional(None, Unset, Unset, Unset), Optional(Unset, Unset, None, Unset)}

InitUpdate ==
    /\ model \in {"ModelToTest", "PolymorphicModel"}
    /\ pagination = FALSE
    /\ processors = <<"p1">>
    /\ context = Empty
    /\ stack = <<>>
    /\ db = {}
    /\ op = [kind |-> "init"]
    /\ ret = Return(None)
    /\ trace = <<>>
    /\ ctor = NoCtor
    /\ callers = Idle

NextUpdate ==
    \/ \E d \in UpdateCreatePayloads, newid \in 1..MaxId :
          /\ Cardinality(db) < MaxRows
          /\ Create(d, newid, TRUE, 0)
    \/ \E r \in db, d \in UpdateFieldPayloads, flushOk \in BOOLEAN :
          UpdateObject(r, d, flushOk, 0)

SpecUpdate == InitUpdate /\ [][NextUpdate]_vars

----------------------------------------------------------------------------
(* SpecRace: two callers share one controller; each enters its block with  *)
(* its own mapping, creates and deletes its own rows inside it, and leaves *)
(* it, the steps of the two interleaved in any order.                      *)

CallerContext(t) == IF t = "A" THEN CtxA ELSE CtxB
CallerPayload(t) == IF t = "A" THEN BaseCreate(v_a) ELSE BaseCreate(v_b)

InitRace ==
    /\ model = "ModelToTest"
    /\ pagination = FALSE
    /\ processors = <<"p1">>
    /\ context = Empty
    /\ stack = <<>>
    /\ db = {}
    /\ op = [kind |-> "init"]
    /\ ret = Return(None)
    /\ trace = <<>>
    /\ ctor = NoCtor
    /\ callers = Idle

NextRace ==
    \/ \E t \in Callers : EnterBlock(t, CallerContext(t))
    \/ \E t \in Callers : ExitBlock(t, CallerContext(t))
    \/ \E t \in Callers, newid \in 1..MaxId, flushOk \in BOOLEAN,
          failAt \in 0..Len(processors) :
          /\ callers.pos[t] = "inside"
          /\ Cardinality(db) < MaxRows
          /\ Create(CallerPayload(t), newid, flushOk, failAt)
    \/ \E t \in Callers, r \in db, flushOk \in BOOLEAN, failAt \in 0..Len(processors) :
          /\ callers.pos[t] = "inside"
          /\ r.cols[n_name] = CallerPayload(t).set[n_name]
          /\ Delete(r, flushOk, failAt)

SpecRace == InitRace /\ [][NextRace]_vars

----------------------------------------------------------------------------
(* Properties of Spec.                                                     *)

Mutating == {"create", "update_object", "delete"}

\* C1: a successful create, update_object or delete has called process once
\* per registration (a processor registered k times is called k times), in
\* registration order, every call having returned before the next one and
\* before the operation returns.
Thm_C1 ==
    (op.kind \in Mutating /\ ret.kind = "return") =>
        /\ Len(calls) = Len(processors)
        /\ \A i \in 1..Len(calls) :
              /\ calls[i].index = i
              /\ calls[i].processor = processors[i]
              /\ calls[i].outcome = "returned"

Wit_C1 ==
    /\ op.kind \in Mutating
    /\ ret.kind = "return"
    /\ Len(processors) = 2
    /\ processors[1] = processors[2]
    /\ Len(calls) = 2

\* C2: every notification carries the operation's own arguments: create
\* passes (CREATE, the resolved class, the payload), update_object (UPDATE,
\* the row's class, the payload), delete (DELETE, the row's class, the row),
\* each with the current context, which is empty outside any set_context block.
Thm_C2 ==
    \A i \in 1..Len(calls) :
        LET c == calls[i]
        IN  /\ c.context = context
            /\ stack = <<>> => c.context = Empty
            /\ op.kind = "create" =>
                  /\ c.operation = "CREATE"
                  /\ c.model = ctor.cls
                  /\ ret.kind = "return" => c.model = type(ret.value)
                  /\ c.data = op.data
            /\ op.kind = "update_object" =>
                  /\ c.operation = "UPDATE"
                  /\ c.model = type(op.row)
                  /\ c.data = op.data
            /\ op.kind = "delete" =>
                  /\ c.operation = "DELETE"
                  /\ c.model = type(op.row)
                  /\ c.data = op.row

Wit_C2 ==
    /\ op.kind = "create"
    /\ model = "PolymorphicModel"
    /\ calls # <<>>
    /\ calls[1].model = "SubModelA"
    /\ calls[1].context = CtxA

\* C9: when processor i raises during the notification of a mutating
\* operation, the operation ends with that exception and returns nothing,
\* processors 1..i-1 have each been called once and returned, and no
\* processor after i has been called.
Thm_C9 ==
    \A i \in 1..Len(calls) :
        (op.kind \in Mutating /\ calls[i].outcome = "raised") =>
            /\ ret = Raise(ProcessorError(i))
            /\ Len(calls) = i
            /\ \A j \in 1..(i - 1) :
                  /\ calls[j].index = j
                  /\ calls[j].processor = processors[j]
                  /\ calls[j].outcome = "returned"

Wit_C9 ==
    /\ op.kind = "delete"
    /\ Len(processors) = 2
    /\ Len(calls) = 1
    /\ calls[1].outcome = "raised"
    /\ ret.kind = "raise"

----------------------------------------------------------------------------
(* Properties of SpecContext.                                              *)

\* C3: once a set_context block has ended the ambient context is the empty
\* mapping, however the block ended: normally, by an exception of its body,
\* or by an exception of a controller operation or processor called in it.
Thm_C3 == op.kind = "exit_context" => context = Empty

Wit_C3 ==
    /\ op.kind = "exit_context"
    /\ op.how = "op_raise"
    /\ ret.kind = "raise"
    /\ ret.value.exc = "ProcessorError"
    /\ op.mapping = CtxA

----------------------------------------------------------------------------
(* Properties of SpecCrud.                                                 *)

\* the declared subclasses of a class, at any depth
descendants(base) == {c \in Classes : c # base /\ issubclass(c, base)}

\* the polymorphic identity a class declares
identity(cls) == dict_get(mapper_args(cls), "polymorphic_identity")

\* the discriminator value of a payload, None when it has none
discriminator(data) == getattr_or_none(data, n_type)

\* the fields of a payload that are explicitly set and not null
set_fields(data) == {f \in DOMAIN data.set : data.set[f] # None}

by_id(rows, i) == get_one(rows, ById(i), NoKwargs)

\* C4: on a polymorphic entity, a create whose payload has no discriminator
\* value, or one that is the identity of no declared subclass, raises the
\* ControllerException naming the bound entity, and has added no row,
\* flushed nothing, constructed nothing and notified no processor.
Thm_C4 ==
    [][(/\ op'.kind = "create"
        /\ model = "PolymorphicModel"
        /\ LET v == discriminator(op'.data)
           IN  v = None \/ \A c \in descendants(model) : identity(c) # v)
       => /\ ret' = Raise(ControllerException(model))
          /\ db' = db
          /\ trace' = <<>>
          /\ ctor' = NoCtor]_vars

Wit_C4 ==
    /\ op.kind = "create"
    /\ model = "PolymorphicModel"
    /\ discriminator(op.data) = StrV(id_Unknown)
    /\ ret = Raise(ControllerException("PolymorphicModel"))
    /\ db # {}
    /\ processors # <<>>

\* C5: on a polymorphic entity, a create whose discriminator value is the
\* identity of a declared subclass (at any depth, falsy identities included)
\* returns a row of exactly that subclass with the payload's fields set,
\* unless the constructor, the session or a processor raised.
Cex_C5 ==
    (/\ op.kind = "create"
     /\ model = "PolymorphicModel"
     /\ \E c \in descendants(model) : identity(c) = discriminator(op.data)
     /\ ~(ret.kind = "raise"
          /\ ret.value.exc \in {"TypeError", "SessionError", "ProcessorError"}))
    => /\ ret.kind = "return"
       /\ identity(type(ret.value)) = discriminator(op.data)
       /\ \A f \in set_fields(op.data) : ret.value.cols[f] = op.data.set[f]

\* C6: a successful create on a non-polymorphic entity constructs the row
\* from exactly the payload fields that are set and not null, stores that one
\* new row under an identity no other stored row has, and a get_one by that
\* identity then finds it.
Thm_C6 ==
    [][(op'.kind = "create" /\ model = "ModelToTest" /\ ret'.kind = "return")
       => LET row == ret'.value
              want == set_fields(op'.data)
          IN  /\ ctor'.called
              /\ DOMAIN ctor'.kwargs = want
              /\ \A f \in want : ctor'.kwargs[f] = op'.data.set[f]
              /\ \A a \in DOMAIN row.cols :
                    IF a \in want THEN row.cols[a] = op'.data.set[a]
                    ELSE IF a = n_id THEN row.cols[a] # None
                    ELSE row.cols[a] = None
              /\ \A r \in db : r.cols[n_id] # row.cols[n_id]
              /\ row \notin db
              /\ db' = db \cup {row}
              /\ by_id(db', row.cols[n_id].v) = {row}]_vars

Wit_C6 ==
    /\ op.kind = "create"
    /\ model = "ModelToTest"
    /\ ret.kind = "return"
    /\ \E f \in DOMAIN op.data.set : op.data.set[f] = None
    /\ Cardinality(db) = 2

\* C7: a delete that returns true leaves no row under the deleted identity
\* and every other identity's lookup as it was; an identity without a row
\* stays without one until a create; and get_one returns what is stored.
Thm_C7 ==
    [][/\ (op'.kind = "delete" /\ ret' = Return(True)) =>
             LET i == op'.row.cols[n_id].v
             IN  /\ by_id(db', i) = {None}
                 /\ \A j \in (1..MaxId) \ {i} : by_id(db', j) = by_id(db, j)
       /\ \A i \in 1..MaxId :
             (by_id(db, i) = {None} /\ op'.kind # "create") => by_id(db', i) = {None}
       /\ op'.kind = "get_one" =>
             /\ db' = db
             /\ ret'.value \in get_one(db, op'.args, op'.kwargs)]_vars

Wit_C7 ==
    /\ op.kind = "delete"
    /\ ret = Return(True)
    /\ db # {}

----------------------------------------------------------------------------
(* Properties of SpecQuery and SpecFilter.                                 *)

\* what the claim takes a filter field to mean on a row
means(row, field, value) ==
    IF endswith(field, suffix_lt)
    THEN row.cols[strip(field, 3)] # None /\ row.cols[strip(field, 3)].v < value.v
    ELSE IF endswith(field, suffix_gt)
    THEN row.cols[strip(field, 3)] # None /\ row.cols[strip(field, 3)].v > value.v
    ELSE IF endswith(field, suffix_like)
    THEN row.cols[strip(field, 5)] # None /\ contains(row.cols[strip(field, 5)].v, value.v)
    ELSE row.cols[field] = value

\* C8: get_many with a filter object and no pagination returns exactly the
\* stored rows that satisfy every positional predicate, every equality
\* keyword and, for every field of the filter object set to a value, column
\* < value for f_lt, column > value for f_gt, column contains value as a
\* substring for f_like, and column = value otherwise.
Cex_C8 ==
    (op.kind = "get_many" /\ op.filters # None /\ ~pagination /\ ret.kind = "return")
    => ret.value =
          Rows({r \in db :
                  /\ \A p \in op.args : holds(r, p)
                  /\ \A k \in DOMAIN op.kwargs : r.cols[k] = op.kwargs[k]
                  /\ \A f \in set_fields(op.filters) : means(r, f, op.filters.set[f])})

\* the kind of a column type, as the claim names it
integer_types == {"Integer", "BigInteger", "SmallInteger"}
text_types == {"String", "Text", "AutoString"}

\* C10: the schema create_filter_model produces has exactly the fields c,
\* c_lt, c_gt of each integer column c and c, c_like of each text column c,
\* every field optional with default None, and is named <EntityName>Filter.
Thm_C10 ==
    op.kind = "create_filter_model" =>
        LET entity == op.model
            schema == ret.value
            cols == {entity.columns[i] : i \in DOMAIN entity.columns}
        IN  /\ DOMAIN schema.fields =
                  UNION {IF c.type \in integer_types
                         THEN {c.name, c.name \o suffix_lt, c.name \o suffix_gt}
                         ELSE IF c.type \in text_types
                         THEN {c.name, c.name \o suffix_like}
                         ELSE {} : c \in cols}
            /\ \A f \in DOMAIN schema.fields : schema.fields[f].default = None
            /\ schema.name = entity.name \o <<"F", "i", "l", "t", "e", "r">>

Wit_C10 ==
    /\ op.kind = "create_filter_model"
    /\ op.model = Hero
    /\ Cardinality(DOMAIN ret.value.fields) = 8

----------------------------------------------------------------------------
(* Properties of SpecUpdate.                                               *)

----------------------------------------------------------------------------
(* Reads: properties of Spec.                                              *)

\* C12: get_one calls no processor.  get_many with a pagination strategy
\* calls no processor and returns what the strategy returns.  get_many
\* without one that returns has called process once per registration, in
\* registration order, each with (READ, the bound entity, the filter object
\* or None, the current context), and executed the query after the last of
\* these calls; when a processor raises, the query is not executed.
Thm_C12 ==
    /\ op.kind = "get_one" => trace = <<>>
    /\ (op.kind = "get_many" /\ pagination) =>
          /\ calls = <<>>
          /\ ret.kind = "return" => (ret.value.t = "page" /\ trace = <<Paginate>>)
    /\ (op.kind = "get_many" /\ ~pagination) =>
          /\ \A i \in 1..Len(calls) :
                /\ trace[i] = calls[i]
                /\ calls[i].index = i
                /\ calls[i].processor = processors[i]
                /\ calls[i].operation = "READ"
                /\ calls[i].model = model
                /\ calls[i].data = op.filters
                /\ calls[i].context = context
          /\ ret.kind = "return" =>
                /\ Len(calls) = Len(processors)
                /\ ret.value.t = "rows"
                /\ trace = calls \o <<All>>
          /\ ret.kind = "raise" => All \notin {trace[i] : i \in 1..Len(trace)}

Wit_C12 ==
    /\ op.kind = "get_many"
    /\ ~pagination
    /\ ret.kind = "return"
    /\ op.filters # None
    /\ Len(processors) = 2
    /\ Len(calls) = 2
    /\ calls[1].context = CtxA
    /\ trace[3] = All

----------------------------------------------------------------------------
(* Properties of SpecRace.                                                 *)

\* the caller whose row the last create or delete wrote
issuer ==
    IF op.kind = "create" THEN {t \in Callers : CallerPayload(t) = op.data}
    ELSE IF op.kind = "delete"
         THEN {t \in Callers : CallerPayload(t).set[n_name] = op.row.cols[n_name]}
         ELSE {}

\* C13: the context is one slot of the controller, shared by its callers: a
\* notification carries what the caller that assigned it last left there,
\* that caller's mapping if it entered its block, the empty mapping if it
\* left it, whichever caller issues the mutation.  So a mutation inside A's
\* block is notified with B's mapping or the empty one when B entered or
\* left its block after A entered (the witness).
Thm_C13 ==
    /\ context = IF callers.last.event = "enter" THEN CallerContext(callers.last.by)
                 ELSE Empty
    /\ (op.kind \in Mutating /\ issuer # {}) =>
          \A i \in 1..Len(calls) : calls[i].context = context

Wit_C13 ==
    /\ op.kind = "create"
    /\ issuer = {"A"}
    /\ callers.pos["A"] = "inside"
    /\ ret.kind = "return"
    /\ Len(calls) = 1
    /\ calls[1].context # CallerContext("A")
    /\ calls[1].context = Empty
    /\ callers.last = [by |-> "B", event |-> "exit"]

----------------------------------------------------------------------------
(* Nested blocks: a property of SpecContext.                               *)

\* C14: with one caller, every notification of a mutating operation carries
\* the mapping of the innermost set_context block the caller is inside, and
\* the empty mapping outside every block, whatever ran earlier in the block,
\* entering and leaving a nested block included.
Cex_C14 ==
    op.kind \in Mutating =>
        \A i \in 1..Len(calls) :
            calls[i].context = IF stack = <<>> THEN Empty ELSE stack[Len(stack)]

----------------------------------------------------------------------------
(* The generated filter fields in get_many: a property of SpecFilterQuery. *)

\* the comparison the generator's description of a field states
intended(words) ==
    CASE words = "Filter by " -> "eq"
      [] words = "Less than " -> "lt"
      [] words = "Greater than " -> "gt"
      [] words = "Partial match for " -> "like"

\* C15: for a filter object of the schema generated for an entity, with one
\* field f set, get_many's filter loop raises nothing and adds one predicate,
\* on a column of the entity, the column f was generated from, with the
\* comparison the generator states for f: also when a column's own name ends
\* in _lt, _gt or _like.
Cex_C15 ==
    op.kind = "get_many_filters" =>
        LET fields == create_filter_model(op.model).fields
            columns == {op.model.columns[i].name : i \in DOMAIN op.model.columns}
        IN  /\ ret.kind = "return"
            /\ \A f \in DOMAIN op.filters.set :
                  /\ Cardinality(ret.value.v) = 1
                  /\ \A p \in ret.value.v :
                        /\ p.col \in columns
                        /\ p.col = fields[f].description[2]
                        /\ p.cmp = intended(fields[f].description[1])

----------------------------------------------------------------------------
(* Session and notification order: a property of Spec.                     *)

\* the flushes of the last operation
flushes == SelectSeq(trace, LAMBDA e : e.ev = "flush")

\* C16: a create, update_object or delete that reaches the session makes its
\* session call (add, or delete for delete), then one flush, then the
\* process() calls, and nothing else: no second flush, no commit, no
\* rollback.  When the flush raises, the operation ends with the session's
\* exception itself, no processor has been called and no stored row changed.
\* When a processor raises, the flushed change stays: the row is stored as
\* created or updated, or is gone as deleted.
Thm_C16 ==
    [][
        op'.kind \in Mutating =>
            /\ trace' # <<>> =>
                  /\ trace'[1] = (IF op'.kind = "delete" THEN Del ELSE Add)
                  /\ Len(flushes') = 1
                  /\ trace'[2] = flushes'[1]
                  /\ trace' = <<trace'[1], trace'[2]>> \o calls'
            /\ (trace' # <<>> /\ ~trace'[2].ok) =>
                  /\ ret' = Raise(SessionError)
                  /\ calls' = <<>>
                  /\ db' = db
            /\ (ret'.kind = "raise" /\ ret'.value.exc = "ProcessorError") =>
                  /\ trace'[2] = Flush(TRUE)
                  /\ op'.kind = "create" =>
                        \E r \in db' \ db :
                            /\ db' = db \cup {r}
                            /\ r.cls = ctor'.cls
                  /\ op'.kind = "update_object" =>
                        db' = (db \ {op'.row})
                                \cup {setattrs(op'.row, model_dump(op'.data, FALSE))}
                  /\ op'.kind = "delete" => db' = db \ {op'.row}
    ]_vars

Wit_C16 ==
    /\ op.kind = "delete"
    /\ Len(processors) = 2
    /\ ret = Raise(ProcessorError(2))
    /\ trace[1] = Del
    /\ trace[2] = Flush(TRUE)
    /\ Len(calls) = 2
    /\ op.row \notin db

====
